---- MODULE Spec2Model ----
(***************************************************************************)
(* Dar's Design Lab: the stage controller (App), the project archive, the  *)
(* refinement ledger / conversation log (RefinementStep), the proposal     *)
(* carousel (ProposalStep), the research and final stages, and the         *)
(* generation gateway (services/gemini.ts), as one state machine.          *)
(*                                                                         *)
(* React semantics used throughout:                                        *)
(*  - a handler invoked by the user sees the state of the latest render;   *)
(*  - an async continuation sees the values its closure captured when the  *)
(*    async function started (props such as onArchive close over the       *)
(*    currentProjectId and stage of that render);                          *)
(*  - a state setter of an unmounted component does nothing;               *)
(*  - an effect with a handler prop among its dependencies is cleaned up   *)
(*    and re-run at every re-render of App, because App creates its        *)
(*    handlers anew at each render.                                        *)
(***************************************************************************)
EXTENDS Integers, Sequences, FiniteSets, TLC

\* ---------------------------------------------------------------- bounds
MaxProjectIds == 2      \* project ids that crypto.randomUUID() may hand out
MaxImageIds   == 2      \* option / version ids that crypto.randomUUID() may hand out
MaxCalls      == 1      \* async calls (and timers) outstanding at the same time
MaxIssued     == 4      \* async calls made from start to end
MaxChat       == 3      \* turns in the refinement conversation log
MaxTime       == 1      \* last value of the millisecond clock read by Date.now()
\* the same for a refinement session, which starts at the selection of an option
MaxRefineIds    == 3
MaxRefineCalls  == 2
MaxRefineIssued == 6
MaxRefineChat   == 7
\* the same for the first stages of a session after the page is opened
MaxStartupCalls  == 2
MaxStartupIssued == 4
\* the archive store alone: project ids and image ids its callers may hold
MaxArchiveProjects == 2
MaxArchiveIds      == 3
\* the same for a stay in the proposal stage, which starts at ProposalStep's mount
MaxBatchIds     == 6
MaxBatchCalls   == 1
MaxBatchIssued  == 3
\* the same for a stay in the final stage, which starts at "Finalize Selection"
MaxFinalCalls   == 2
MaxFinalIssued  == 7

\* ------------------------------------------------------------ input sets
\* null / undefined of an object-valued variable
NULL == [null |-> TRUE]
Typologies == {"Museum", "Villa"}
Locations == {"Riyadh"}
BriefingInputs == [typology : Typologies, location : Locations]
\* what the gateway may answer to the research request
ResearchOutcomes == {"throw", "notext", "garbage", "R1"}
\* what the gateway may answer to one image request: the call throws, the
\* response carries no inline image, or it carries inline data
BatchOutcomes == {"throw", "none", "A"}
RefineOutcomes == {"throw", "none", "", "B"}
InputTexts == {" ", "make it night time"}
SynthesisPrompts == {" ", "mix"}
PENDING == "pending"

\* --------------------------------------------------- pure helpers (code)
\* String.prototype.trim() on the texts of the model
Trim(s) == IF s = " " THEN "" ELSE s

\* `data:${part.inlineData.mimeType};base64,${part.inlineData.data}`
DataUrl(data) == "data:image/png;base64," \o data

\* str.match(/^data:(.+);base64,(.+)$/): both groups must be non-empty
ImageData == {"", "A", "B"}
MatchesDataUrl(url) == \E d \in ImageData : d # "" /\ url = DataUrl(d)

\* the image url a gateway response yields (gemini.ts: imageUrl = '' unless a
\* part carries inlineData)
ImageUrlOf(outcome) == IF outcome \in {"throw", "none"} THEN "" ELSE DataUrl(outcome)

DEFAULT_RESEARCH ==
    [summary |-> "Could not generate research. Using default context parameters."]

\* the promise of performContextResearch rejected
REJECTED == [rejected |-> TRUE]
\* what the gateway answered is no research text: the call threw, the
\* response has no text, or the text is not JSON
ResearchFailed(outcome) == outcome \in {"throw", "notext", "garbage"}

\* variant of performContextResearch that parses outside the try block
performContextResearchParsingOutside(outcome) ==
    IF outcome \in {"throw", "notext"} THEN DEFAULT_RESEARCH
    ELSE IF outcome = "garbage" THEN REJECTED
    ELSE [summary |-> outcome]

\* performContextResearch: the parsed text, or the fixed default payload when
\* the call throws, returns no text, or JSON.parse throws
performContextResearch(outcome) ==
    IF outcome \in {"throw", "notext", "garbage"} THEN DEFAULT_RESEARCH
    ELSE [summary |-> outcome]

COMPLETE_REDESIGN == "COMPLETELY REDESIGN the view."

\* variant of ProjectName with the two parts exchanged
ProjectNameReversed(data) == data.location \o " in " \o data.typology

\* `${data.typology} in ${data.location}`
ProjectName(data) == data.typology \o " in " \o data.location

SeqToSet(s) == {s[i] : i \in 1..Len(s)}
Max(S) == IF S = {} THEN 0 ELSE CHOOSE m \in S : \A x \in S : x <= m

\* ------------------------------------------------------------ the state
VARIABLES
    \* App (useState)
    stage, briefData, researchData, selectedOption, finalImage, chatHistory,
    projects, currentProjectId, isLibraryOpen,
    storage,        \* localStorage[STORAGE_KEY]
    root,           \* React's root: unmounted | mounted | failed
    \* the mounted stage components' own state (useState), as records
    proposal,       \* ProposalStep: options, loading, currentIndex, ...
    refinement,     \* RefinementStep: currentImage, historyVersions, ...
    final,          \* FinalStep: angles, loadingAngles
    calls,          \* async calls and timers that have not settled yet
    now,            \* the last value Date.now() returned
    uuids,          \* how many image ids crypto.randomUUID() has handed out
    issued,         \* how many async calls the session has made
    last            \* history variable: the operation that ran last

appVars == <<stage, briefData, researchData, selectedOption, finalImage,
             chatHistory, projects, currentProjectId, isLibraryOpen, storage>>
vars == <<stage, briefData, researchData, selectedOption, finalImage,
          chatHistory, projects, currentProjectId, isLibraryOpen, storage,
          root, proposal, refinement, final, calls, now, uuids, issued, last>>

\* ----------------------------------------------------- ids (randomUUID)
Uuid(n) == <<"uuid", n>>
V0 == <<"v0">>
AngleId(idx, t) == <<"angle", idx, t>>

\* crypto.randomUUID(): an id never handed out before
FreshImageNum == uuids + 1
\* variant of FreshProjectId that hands the current id out again
FreshProjectIdReused == currentProjectId

FreshProjectId ==
    Max({p.id : p \in SeqToSet(projects)} \cup {currentProjectId}
        \cup {c.pid : c \in SeqToSet(calls)}) + 1

\* ------------------------------------------------------- localStorage
\* a write of the most recent project alone
JSONstringifyHead(projs) ==
    [json |-> IF projs = <<>> THEN <<>> ELSE <<Head(projs)>>]

\* JSON.stringify(projects): the text of the complete list

JSONstringify(projs) == [json |-> projs]
\* stored texts that are not the text of a list: the empty text, and a text
\* that is not JSON (a write cut short, a value another program left)
EMPTY_TEXT == [text |-> ""]
CORRUPT == [text |-> "[{id:"]
\* saved ? ... : ...  -- getItem answers null (NULL) for an absent key
Falsy(saved) == saved \in {NULL, EMPTY_TEXT}
\* JSON.parse(saved) throws a SyntaxError
JSONparseThrows(saved) == "json" \notin DOMAIN saved
JSONparse(saved) == saved.json

\* ------------------------------------------------- Project Archive Store
EMPTY_BRIEF == [typology |-> "", location |-> ""]

FindProject(projs, pid) == {i \in 1..Len(projs) : projs[i].id = pid}

\* a merge that starts the image list again
MergeDroppingImages(p, updates) ==
    [f \in DOMAIN p |-> IF f \in DOMAIN updates THEN updates[f]
                        ELSE IF f = "images" THEN <<>> ELSE p[f]]

\* { ...p, ...updates }
Merge(p, updates) ==
    [f \in DOMAIN p |-> IF f \in DOMAIN updates THEN updates[f] ELSE p[f]]

\* variant of updateCurrentProject that puts a new project at the end
updateCurrentProjectAppending(projs, pid, brief, updates) ==
    IF FindProject(projs, pid) # {}
    THEN [i \in 1..Len(projs) |->
            IF projs[i].id = pid THEN Merge(projs[i], updates) ELSE projs[i]]
    ELSE projs \o <<Merge([id |-> pid,
                           name |-> IF brief # NULL THEN ProjectName(brief)
                                    ELSE "Unnamed Project",
                           brief |-> IF brief # NULL THEN brief ELSE EMPTY_BRIEF,
                           research |-> NULL,
                           images |-> <<>>,
                           finalImage |-> ""], updates)>>

\* updateCurrentProject, with the currentProjectId and briefData its closure holds
updateCurrentProject(projs, pid, brief, updates) ==
    IF FindProject(projs, pid) # {}
    THEN [i \in 1..Len(projs) |->
            IF projs[i].id = pid THEN Merge(projs[i], updates) ELSE projs[i]]
    ELSE LET newProj == Merge([id |-> pid,
                               name |-> IF brief # NULL THEN ProjectName(brief)
                                        ELSE "Unnamed Project",
                               brief |-> IF brief # NULL THEN brief ELSE EMPTY_BRIEF,
                               research |-> NULL,
                               images |-> <<>>,
                               finalImage |-> ""], updates)
         IN <<newProj>> \o projs

\* variant of addToArchive without the check for an id the project already holds
addToArchiveUnchecked(projs, pid, stg, img) ==
    [i \in 1..Len(projs) |->
        IF projs[i].id = pid
        THEN [projs[i] EXCEPT !.images =
                <<[id |-> img.id, url |-> img.url, stage |-> stg, type |-> img.type]>> \o @]
        ELSE projs[i]]

\* variant of addToArchive that opens a project for an id the list lacks
addToArchiveCreating(projs, pid, stg, img) ==
    LET newImage == [id |-> img.id, url |-> img.url, stage |-> stg, type |-> img.type]
    IN IF FindProject(projs, pid) = {}
       THEN <<[id |-> pid, name |-> "Unnamed Project", brief |-> EMPTY_BRIEF,
               research |-> NULL, images |-> <<newImage>>, finalImage |-> ""]>> \o projs
       ELSE addToArchiveUnchecked(projs, pid, stg, img)

\* addToArchive, with the currentProjectId and stage its closure holds
addToArchive(projs, pid, stg, img) ==
    LET newImage == [id |-> img.id, url |-> img.url, stage |-> stg, type |-> img.type]
    IN IF FindProject(projs, pid) = {} THEN projs
       ELSE LET proj == projs[CHOOSE i \in FindProject(projs, pid) : \A j \in FindProject(projs, pid) : i <= j]
            IN IF \E i \in 1..Len(proj.images) : proj.images[i].id = newImage.id
               THEN projs
               ELSE [i \in 1..Len(projs) |->
                        IF projs[i].id = pid
                        THEN [projs[i] EXCEPT !.images = <<newImage>> \o @]
                        ELSE projs[i]]

RECURSIVE ArchiveAll(_, _, _, _)
\* imgs.forEach(img => onArchive(img))
ArchiveAll(projs, pid, stg, imgs) ==
    IF imgs = <<>> THEN projs
    ELSE ArchiveAll(addToArchive(projs, pid, stg, Head(imgs)), pid, stg, Tail(imgs))


\* ------------------------------------------- which stage view is rendered
\* App's render: {stage === X && data && <XStep .../>}
ResearchMounted == stage = "RESEARCH" /\ briefData # NULL
ProposalMounted == stage = "PROPOSAL" /\ briefData # NULL /\ researchData # NULL
RefinementMounted == stage = "REFINEMENT" /\ selectedOption # NULL /\ briefData # NULL
FinalMounted ==
    stage = "FINAL" /\ finalImage # "" /\ briefData # NULL /\ researchData # NULL

\* Nothing is rendered: App never mounted (its useState initializer threw), or
\* ProposalStep's render threw: it reads options[currentIndex].imageUrl once it
\* shows the carousel, with currentIndex out of range that read throws and
\* React unmounts the whole tree
Crashed ==
    \/ root # "mounted"
    \/ /\ ProposalMounted
       /\ ~proposal.loading /\ proposal.options # <<>> /\ ~proposal.isSynthesizing
       /\ proposal.currentIndex >= Len(proposal.options)

\* ------------------------------------------- the components' first state
InitProposal ==
    [options |-> <<>>, loading |-> TRUE, currentIndex |-> 0,
     isSynthesizing |-> FALSE, showSynthesisUI |-> FALSE]

InitMessage == [id |-> "init", role |-> "model", text |-> "loaded", imageUrl |-> ""]

\* variant of InitRefinement whose ledger starts without the seed entry
InitRefinementUnseeded(option) ==
    [currentImage |-> option.imageUrl,
     historyVersions |-> <<>>,
     chatHistory |-> <<InitMessage>>,
     input |-> "",
     isProcessing |-> FALSE]

InitRefinement(option) ==
    [currentImage |-> option.imageUrl,
     historyVersions |-> <<[id |-> V0, imageUrl |-> option.imageUrl,
                            prompt |-> "Original Concept"]>>,
     chatHistory |-> <<InitMessage>>,
     input |-> "",
     isProcessing |-> FALSE]

InitFinal == [angles |-> <<>>, loadingAngles |-> TRUE]

\* the value the model gives the state of a component that is not mounted
NoRefinement ==
    [currentImage |-> "", historyVersions |-> <<>>, chatHistory |-> <<>>,
     input |-> "", isProcessing |-> FALSE]

\* ------------------------------------------------------- outstanding calls
\* kind: research | concepts | hybrid | refine | angles
\* live: ResearchStep / FinalStep: the isMounted / mounted flag of the effect
\*       run that made the call; ProposalStep / RefinementStep: the component
\*       instance that made the call is still mounted
\* pid, brief: the currentProjectId and briefData held by the closure of the
\*       App handler the call will invoke (onArchive, onResearchComplete)
\* res:  what each gateway request of the call has answered, PENDING before
\* done: research only: performContextResearch has resolved and the 2 s timer
\*       is scheduled
Call(kind, pid, brief, n, image, text, base) ==
    [kind |-> kind, live |-> TRUE, pid |-> pid, brief |-> brief,
     res |-> [k \in 1..n |-> PENDING], done |-> FALSE,
     image |-> image, text |-> text, base |-> base, research |-> NULL]

ResearchCall(pid, brief) == Call("research", pid, brief, 1, "", "", 0)
ConceptsCall(pid, brief) == Call("concepts", pid, brief, 3, "", "", 0)
HybridCall(pid, brief, base) == Call("hybrid", pid, brief, 3, "", "", base)
RefineCall(pid, brief, image, text) == Call("refine", pid, brief, 1, image, text, 0)
AnglesCall(pid, brief, image) == Call("angles", pid, brief, 3, image, "", 0)

RemoveAt(s, i) == [j \in 1..(Len(s) - 1) |-> IF j < i THEN s[j] ELSE s[j + 1]]

\* ------------------------------------------------ App's re-render (commit)
\* The effect cleanups and unmounts of a re-render of App:
\*  ResearchStep (deps [briefData, onResearchComplete]) and FinalStep (deps
\*  [finalImage, briefData, onArchive]) clean their effect up, which clears the
\*  run's flag; a component that is no longer rendered is unmounted.
Cleanup(cs) ==
    [i \in 1..Len(cs) |->
        [cs[i] EXCEPT !.live =
            CASE cs[i].kind \in {"research", "angles"} -> FALSE
              [] cs[i].kind \in {"concepts", "hybrid"} -> @ /\ ProposalMounted'
              [] OTHER -> @ /\ RefinementMounted']]

\* The effects a re-render of App runs: ResearchStep's and FinalStep's effect
\* at every render, ProposalStep's only when it mounts.
EffectCalls ==
    (IF ResearchMounted' THEN <<ResearchCall(currentProjectId', briefData')>> ELSE <<>>)
    \o (IF ProposalMounted' /\ ~ProposalMounted
        THEN <<ConceptsCall(currentProjectId', briefData')>> ELSE <<>>)
    \o (IF FinalMounted'
        THEN <<AnglesCall(currentProjectId', briefData', finalImage')>> ELSE <<>>)

\* A re-render of App after its state changed. cs, prop, ref, fin: the calls
\* and the components' state as the handler left them.
AppRender(cs, prop, ref, fin) ==
    /\ storage' = JSONstringify(projects')
    /\ UNCHANGED root
    /\ proposal' = IF ProposalMounted' /\ ProposalMounted THEN prop ELSE InitProposal
    /\ refinement' = IF RefinementMounted'
                     THEN (IF RefinementMounted THEN ref
                           ELSE InitRefinement(selectedOption'))
                     ELSE NoRefinement
    /\ final' = IF FinalMounted' /\ FinalMounted THEN fin ELSE InitFinal
    /\ calls' = Cleanup(cs) \o EffectCalls
    /\ issued' = issued + Len(EffectCalls)

\* A state change of a stage component alone: App is not rendered again.
LocalRender(cs, prop, ref, fin) ==
    /\ UNCHANGED <<appVars, root>>
    /\ proposal' = prop
    /\ refinement' = ref
    /\ final' = fin
    /\ calls' = cs
    /\ issued' = issued + (IF Len(cs) > Len(calls) THEN 1 ELSE 0)

\* ---------------------------------------------------------------- Init
Init ==
    /\ stage = "BRIEFING"
    /\ briefData = NULL
    /\ researchData = NULL
    /\ selectedOption = NULL
    /\ finalImage = ""
    /\ chatHistory = <<>>
    /\ projects = <<>>
    /\ currentProjectId = 1
    /\ isLibraryOpen = FALSE
    /\ storage = JSONstringify(<<>>)
    /\ root = "mounted"
    /\ proposal = InitProposal
    /\ refinement = NoRefinement
    /\ final = InitFinal
    /\ calls = <<>>
    /\ now = 0
    /\ uuids = 0
    /\ issued = 0
    /\ last = [op |-> "init"]

\* ------------------------------------------------------ App's handlers
handleBriefingComplete(data) ==
    /\ ~Crashed
    /\ stage = "BRIEFING"
    /\ briefData' = data
    /\ projects' = updateCurrentProject(projects, currentProjectId, briefData,
                                        [brief |-> data, name |-> ProjectName(data)])
    /\ stage' = "RESEARCH"
    /\ UNCHANGED <<researchData, selectedOption, finalImage, chatHistory,
                   currentProjectId, isLibraryOpen, now, uuids>>
    /\ AppRender(calls, proposal, refinement, final)
    /\ last' = [op |-> "handleBriefingComplete", data |-> data]

startNewProject ==
    /\ ~Crashed
    /\ currentProjectId' = FreshProjectId
    /\ briefData' = NULL
    /\ researchData' = NULL
    /\ selectedOption' = NULL
    /\ finalImage' = ""
    /\ chatHistory' = <<>>
    /\ stage' = "BRIEFING"
    /\ isLibraryOpen' = FALSE
    /\ UNCHANGED <<projects, now, uuids>>
    /\ AppRender(calls, proposal, refinement, final)
    /\ last' = [op |-> "startNewProject"]

\* variant of EntryStage that looks at the research before the final image
EntryStageResearchFirst(project) ==
    IF project.research # NULL THEN "PROPOSAL"
    ELSE IF project.finalImage # "" THEN "FINAL"
    ELSE "BRIEFING"

\* loadProject's choice of the entry stage
EntryStage(project) ==
    IF project.finalImage # "" THEN "FINAL"
    ELSE IF project.research # NULL THEN "PROPOSAL"
    ELSE "BRIEFING"

\* ProjectLibrary.handleRestoreProject: onSelectProject(p); onClose()
loadProject(project) ==
    /\ ~Crashed
    /\ isLibraryOpen
    /\ currentProjectId' = project.id
    /\ briefData' = project.brief
    /\ researchData' = project.research
    /\ finalImage' = project.finalImage
    /\ stage' = EntryStage(project)
    /\ isLibraryOpen' = FALSE
    /\ UNCHANGED <<selectedOption, chatHistory, projects, now, uuids>>
    /\ AppRender(calls, proposal, refinement, final)
    /\ last' = [op |-> "loadProject", id |-> project.id]

OpenLibrary ==
    /\ ~Crashed
    /\ ~isLibraryOpen
    /\ isLibraryOpen' = TRUE
    /\ UNCHANGED <<stage, briefData, researchData, selectedOption, finalImage,
                   chatHistory, projects, currentProjectId, now, uuids>>
    /\ AppRender(calls, proposal, refinement, final)
    /\ last' = [op |-> "ui"]

CloseLibrary ==
    /\ ~Crashed
    /\ isLibraryOpen
    /\ isLibraryOpen' = FALSE
    /\ UNCHANGED <<stage, briefData, researchData, selectedOption, finalImage,
                   chatHistory, projects, currentProjectId, now, uuids>>
    /\ AppRender(calls, proposal, refinement, final)
    /\ last' = [op |-> "ui"]

\* handleResearchComplete, with the currentProjectId and briefData of the
\* render whose handler ResearchStep's effect captured
handleResearchComplete(data, pid, brief, cs) ==
    /\ researchData' = data
    /\ projects' = updateCurrentProject(projects, pid, brief, [research |-> data])
    /\ stage' = "PROPOSAL"
    /\ UNCHANGED <<briefData, selectedOption, finalImage, chatHistory,
                   currentProjectId, isLibraryOpen, now, uuids>>
    /\ AppRender(cs, proposal, refinement, final)

\* ---------------------------------------------------------- ResearchStep
\* runResearch after `await performContextResearch(briefData)`: with the run's
\* isMounted flag set it schedules onResearchComplete 2 s later; its catch
\* block only shows a status line when the promise rejected
ResearchSettle(i, outcome) ==
    /\ ~Crashed
    /\ calls[i].kind = "research" /\ ~calls[i].done
    /\ LET research == performContextResearch(outcome)
           cs == IF calls[i].live /\ research # REJECTED
                 THEN [calls EXCEPT ![i].done = TRUE, ![i].research = research,
                                    ![i].res = <<outcome>>]
                 ELSE RemoveAt(calls, i)
       IN /\ LocalRender(cs, proposal, refinement, final)
          /\ last' = [op |-> "ResearchSettle", live |-> calls[i].live,
                      failed |-> ResearchFailed(outcome), research |-> research]
    /\ UNCHANGED <<now, uuids>>

\* setTimeout(() => { onResearchComplete(research) }, 2000) fires
ResearchTimer(i) ==
    /\ ~Crashed
    /\ calls[i].kind = "research" /\ calls[i].done
    /\ handleResearchComplete(calls[i].research, calls[i].pid, calls[i].brief,
                              RemoveAt(calls, i))
    /\ last' = [op |-> "ResearchTimer", live |-> calls[i].live,
                research |-> calls[i].research, pid |-> calls[i].pid]

\* ------------------------------------------------ the three batch operations
ConceptTitles == <<"The Direct Vision", "The Muse", "The Local Evo">>
ConceptTypes == <<"LITERAL", "INSPIRED", "WILDCARD">>
HybridTitles == <<"Hybrid: Balanced Synthesis", "Hybrid: Bold Interpretation",
                  "Hybrid: Subtle Integration">>

\* generateOne: the option's imageUrl; the catch block answers '' when the
\* request throws
generateOne(outcome) == ImageUrlOf(outcome)

\* generateVariant rethrows what the request throws
generateVariantThrows(outcome) == outcome = "throw"
\* generateVariant: the option's imageUrl when the request does not throw
generateVariant(outcome) == ImageUrlOf(outcome)

\* generateAngle: the url, '' when the request throws or carries no image
generateAngle(outcome) == ImageUrlOf(outcome)

RECURSIVE SurvivorsUnfiltered(_, _)
\* variant of Survivors that keeps every member
SurvivorsUnfiltered(res, k) ==
    IF k > Len(res) THEN <<>> ELSE <<k>> \o SurvivorsUnfiltered(res, k + 1)

RECURSIVE Survivors(_, _)
\* results.filter(r => r.imageUrl !== ''): the members kept, in issue order
Survivors(res, k) ==
    IF k > Len(res) THEN <<>>
    ELSE IF res[k] = "" THEN Survivors(res, k + 1)
         ELSE <<k>> \o Survivors(res, k + 1)

\* generateArchitecturalConcepts: Promise.all([promiseA, promiseB, promiseC])
\* then the filter; res[k] is the imageUrl member k resolved with
generateArchitecturalConcepts(res, firstId) ==
    LET ks == Survivors(res, 1)
    IN [j \in 1..Len(ks) |->
          [id |-> Uuid(firstId + j - 1), title |-> ConceptTitles[ks[j]],
           type |-> ConceptTypes[ks[j]], imageUrl |-> res[ks[j]]]]

\* generateHybridConcepts, when Promise.all resolved
generateHybridConcepts(res, firstId) ==
    LET ks == Survivors(res, 1)
    IN [j \in 1..Len(ks) |->
          [id |-> Uuid(firstId + j - 1), title |-> HybridTitles[ks[j]],
           type |-> "HYBRID", imageUrl |-> res[ks[j]]]]

\* generateMultiAngleViews: Promise.all then angles.filter(a => a !== '')
generateMultiAngleViews(res) ==
    LET ks == Survivors(res, 1)
    IN [j \in 1..Len(ks) |-> res[ks[j]]]

\* the images a batch hands to onArchive
OptionImages(opts, type) ==
    [j \in 1..Len(opts) |-> [id |-> opts[j].id, url |-> opts[j].imageUrl, type |-> type]]
AngleImages(urls, t) ==
    [j \in 1..Len(urls) |-> [id |-> AngleId(j - 1, t), url |-> urls[j], type |-> "ANGLE"]]

\* a completion that called App's setProjects: App renders again only when the
\* list changed
Completion(cs, prop, ref, fin) ==
    IF projects' # projects
    THEN /\ UNCHANGED <<stage, briefData, researchData, selectedOption, finalImage,
                        chatHistory, currentProjectId, isLibraryOpen>>
         /\ AppRender(cs, prop, ref, fin)
    ELSE LocalRender(cs, prop, ref, fin)

\* ProposalStep.fetchOptions after `await generateArchitecturalConcepts(...)`
fetchOptionsDone(i, res) ==
    LET c == calls[i]
        generated == generateArchitecturalConcepts(res, FreshImageNum)
    IN /\ projects' = ArchiveAll(projects, c.pid, "PROPOSAL",
                                 OptionImages(generated, "CONCEPT"))
       /\ Completion(RemoveAt(calls, i),
                     IF c.live THEN [proposal EXCEPT !.options = generated,
                                                     !.loading = FALSE]
                     ELSE proposal,
                     refinement, final)
       /\ uuids' = uuids + Len(generated)
       /\ UNCHANGED now
       /\ last' = [op |-> "BatchComplete", kind |-> "concepts", live |-> c.live,
                   res |-> res, rejected |-> FALSE, returned |-> generated]

\* ProposalStep.handleSynthesis after `await generateHybridConcepts(...)` resolved
handleSynthesisDone(i, res) ==
    LET c == calls[i]
        hybridOptions == generateHybridConcepts(res, FreshImageNum)
    IN /\ projects' = ArchiveAll(projects, c.pid, "PROPOSAL",
                                 OptionImages(hybridOptions, "HYBRID"))
       /\ Completion(RemoveAt(calls, i),
                     IF c.live
                     THEN [proposal EXCEPT !.options = @ \o hybridOptions,
                                           !.currentIndex = c.base,
                                           !.isSynthesizing = FALSE]
                     ELSE proposal,
                     refinement, final)
       /\ uuids' = uuids + Len(hybridOptions)
       /\ UNCHANGED now
       /\ last' = [op |-> "BatchComplete", kind |-> "hybrid", live |-> c.live,
                   res |-> res, rejected |-> FALSE, returned |-> hybridOptions]

\* ProposalStep.handleSynthesis when generateHybridConcepts rejected: catch,
\* finally. res[k] = "throw" marks the member that rejected.
handleSynthesisFailed(i, res) ==
    LET c == calls[i]
    IN /\ LocalRender(RemoveAt(calls, i),
                      IF c.live THEN [proposal EXCEPT !.isSynthesizing = FALSE]
                      ELSE proposal,
                      refinement, final)
       /\ UNCHANGED <<now, uuids>>
       /\ last' = [op |-> "BatchComplete", kind |-> "hybrid", live |-> c.live,
                   res |-> res, rejected |-> TRUE, returned |-> <<>>]

\* FinalStep.loadAngles after `await generateMultiAngleViews(...)`, the run's
\* mounted flag still set
loadAnglesDone(i, res) ==
    LET c == calls[i]
        newAngles == generateMultiAngleViews(res)
    IN \E t \in {now, now + 1} :
       /\ newAngles = <<>> => t = now
       /\ now' = t
       /\ UNCHANGED uuids
       /\ projects' = ArchiveAll(projects, c.pid, "FINAL", AngleImages(newAngles, t))
       /\ Completion(RemoveAt(calls, i), proposal, refinement,
                     [angles |-> newAngles, loadingAngles |-> FALSE])
       /\ last' = [op |-> "BatchComplete", kind |-> "angles", live |-> TRUE,
                   res |-> res, rejected |-> FALSE, returned |-> newAngles]

\* FinalStep.loadAngles: if (mounted) { ... } skips the whole completion once
\* the effect run has been cleaned up
Ignored(c) == c.kind = "angles" /\ ~c.live

\* The three gateway requests of a batch settle and Promise.all settles: what
\* a member resolved with is read by nobody before Promise.all settles, so the
\* three are taken in one step.
BatchSettle(i, outcomes) ==
    /\ ~Crashed
    /\ calls[i].kind \in {"concepts", "hybrid", "angles"}
    /\ \A k \in 1..3 : calls[i].res[k] = PENDING
    /\ LET c == calls[i]
           res == [k \in 1..3 |->
                     CASE c.kind = "concepts" -> generateOne(outcomes[k])
                       [] c.kind = "hybrid" ->
                            IF generateVariantThrows(outcomes[k]) THEN "throw"
                            ELSE generateVariant(outcomes[k])
                       [] c.kind = "angles" -> generateAngle(outcomes[k])]
       IN CASE Ignored(c) ->
                 /\ LocalRender(RemoveAt(calls, i), proposal, refinement, final)
                 /\ UNCHANGED <<now, uuids>>
                 /\ last' = [op |-> "ui"]
            [] ~Ignored(c) /\ c.kind = "concepts" -> fetchOptionsDone(i, res)
            [] ~Ignored(c) /\ c.kind = "hybrid" /\ (\E k \in 1..3 : res[k] = "throw") ->
                 handleSynthesisFailed(i, res)
            [] ~Ignored(c) /\ c.kind = "hybrid" /\ (\A k \in 1..3 : res[k] # "throw") ->
                 handleSynthesisDone(i, res)
            [] ~Ignored(c) /\ c.kind = "angles" -> loadAnglesDone(i, res)

\* One gateway request of a batch settles. Promise.all settles towards the
\* caller when its last member has resolved, or as soon as one member rejects
\* (only generateVariant can reject); the requests that are still pending then
\* are not cancelled, and nobody reads what they answer.
MemberResult(kind, outcome) ==
    CASE kind = "concepts" -> generateOne(outcome)
      [] kind = "hybrid" -> IF generateVariantThrows(outcome) THEN "throw"
                            ELSE generateVariant(outcome)
      [] kind = "angles" -> generateAngle(outcome)

BatchMemberSettle(i, k, outcome) ==
    /\ ~Crashed
    /\ calls[i].kind \in {"concepts", "hybrid", "angles"}
    /\ calls[i].res[k] = PENDING
    /\ LET c == calls[i]
           res == [c.res EXCEPT ![k] = MemberResult(c.kind, outcome)]
           rejects == res[k] = "throw"
           allSettled == \A j \in 1..3 : res[j] # PENDING
       IN CASE ~rejects /\ ~allSettled ->
                 /\ LocalRender([calls EXCEPT ![i].res = res],
                                proposal, refinement, final)
                 /\ UNCHANGED <<now, uuids>>
                 /\ last' = [op |-> "MemberSettle", kind |-> c.kind]
            [] Ignored(c) /\ allSettled ->
                 /\ LocalRender(RemoveAt(calls, i), proposal, refinement, final)
                 /\ UNCHANGED <<now, uuids>>
                 /\ last' = [op |-> "ui"]
            [] ~Ignored(c) /\ rejects -> handleSynthesisFailed(i, res)
            [] ~Ignored(c) /\ ~rejects /\ allSettled /\ c.kind = "concepts" ->
                 fetchOptionsDone(i, res)
            [] ~Ignored(c) /\ ~rejects /\ allSettled /\ c.kind = "hybrid" ->
                 handleSynthesisDone(i, res)
            [] ~Ignored(c) /\ ~rejects /\ allSettled /\ c.kind = "angles" ->
                 loadAnglesDone(i, res)

\* ---------------------------------------------------------- ProposalStep
\* the carousel is shown (not the loading, failure or laboratory screen)
ProposalReady ==
    /\ ProposalMounted /\ ~Crashed
    /\ ~proposal.loading /\ proposal.options # <<>> /\ ~proposal.isSynthesizing

handleNext ==
    /\ ProposalReady /\ Len(proposal.options) > 1
    /\ LocalRender(calls,
                   [proposal EXCEPT !.currentIndex = (@ + 1) % Len(proposal.options)],
                   refinement, final)
    /\ UNCHANGED <<now, uuids>>
    /\ last' = [op |-> "ui"]

handlePrev ==
    /\ ProposalReady /\ Len(proposal.options) > 1
    /\ LocalRender(calls,
                   [proposal EXCEPT !.currentIndex =
                        (@ - 1 + Len(proposal.options)) % Len(proposal.options)],
                   refinement, final)
    /\ UNCHANGED <<now, uuids>>
    /\ last' = [op |-> "ui"]

\* the "Mix Designs" button: setShowSynthesisUI(true)
OpenSynthesisUI ==
    /\ ProposalReady /\ ~proposal.showSynthesisUI
    /\ LocalRender(calls, [proposal EXCEPT !.showSynthesisUI = TRUE], refinement, final)
    /\ UNCHANGED <<now, uuids>>
    /\ last' = [op |-> "ui"]

\* handleSynthesis up to `await generateHybridConcepts(...)`; the button of the
\* modal is disabled on the same condition as the handler's early return
handleSynthesis(synthesisPrompt) ==
    /\ ProposalReady /\ proposal.showSynthesisUI
    /\ Trim(synthesisPrompt) # ""
    /\ LocalRender(Append(calls, HybridCall(currentProjectId, briefData,
                                            Len(proposal.options))),
                   [proposal EXCEPT !.isSynthesizing = TRUE, !.showSynthesisUI = FALSE],
                   refinement, final)
    /\ UNCHANGED <<now, uuids>>
    /\ last' = [op |-> "handleSynthesis"]

\* a selection that also re-keys the session
handleOptionSelectedRekeyed ==
    /\ ProposalReady
    /\ selectedOption' = proposal.options[proposal.currentIndex + 1]
    /\ stage' = "REFINEMENT"
    /\ currentProjectId' = FreshProjectId
    /\ UNCHANGED <<briefData, researchData, finalImage, chatHistory, projects,
                   isLibraryOpen, now, uuids>>
    /\ AppRender(calls, proposal, refinement, final)
    /\ last' = [op |-> "handleOptionSelected"]

\* "Select to Refine": onSelectOption(currentOption) = handleOptionSelected
handleOptionSelected ==
    /\ ProposalReady
    /\ selectedOption' = proposal.options[proposal.currentIndex + 1]
    /\ stage' = "REFINEMENT"
    /\ UNCHANGED <<briefData, researchData, finalImage, chatHistory, projects,
                   currentProjectId, isLibraryOpen, now, uuids>>
    /\ AppRender(calls, proposal, refinement, final)
    /\ last' = [op |-> "handleOptionSelected"]

\* -------------------------------------------------------- RefinementStep
\* the texts of the model's turns
UPDATED_TEXT ==
    "Design updated. I've incorporated your comments while maintaining the inspiration mood. What else needs adjustment?"
ERROR_TEXT ==
    "I encountered an error processing that refinement. Please try a different instruction."

UserMessage(text) == [id |-> "uuid", role |-> "user", text |-> text, imageUrl |-> ""]
\* variant of ModelMessage that carries no image
ModelMessageWithoutImage(imageUrl) ==
    [id |-> "uuid", role |-> "model", text |-> UPDATED_TEXT, imageUrl |-> ""]
ModelMessage(imageUrl) ==
    [id |-> "uuid", role |-> "model", text |-> UPDATED_TEXT, imageUrl |-> imageUrl]
\* variant of ErrorMessage that shows the image the request was made for
ErrorMessageWithImage ==
    [id |-> "uuid", role |-> "model", text |-> ERROR_TEXT,
     imageUrl |-> refinement.currentImage]
ErrorMessage ==
    [id |-> "uuid", role |-> "model", text |-> ERROR_TEXT, imageUrl |-> ""]
RestoreMessage ==
    [id |-> "uuid", role |-> "model", text |-> "Restored version.", imageUrl |-> ""]

\* variant of RefineFailed without the finally block
RefineFailedStillProcessing(ref) ==
    [ref EXCEPT !.chatHistory = Append(@, ErrorMessage)]

\* handleSend's catch and finally blocks: the error turn, isProcessing reset
RefineFailed(ref) ==
    [ref EXCEPT !.chatHistory = Append(@, ErrorMessage), !.isProcessing = FALSE]

\* variant of SendRejected without the isProcessing gate
SendRejectedUngated(promptText) == Trim(promptText) = ""

\* handleSend's early return: if (!promptText.trim() || isProcessing) return
SendRejected(promptText) == Trim(promptText) = "" \/ refinement.isProcessing

\* refineArchitecturalImage throws "Invalid image data format" before it
\* reaches the gateway when currentImage is no data url
RefineThrowsEarly(currentImage) == ~MatchesDataUrl(currentImage)

\* handleSend(overridePrompt) up to `await refineArchitecturalImage(...)`, and
\* through the catch / finally blocks when that call throws at once.
\* input: what the textarea holds when the handler runs.
handleSend(overridePrompt, input) ==
    /\ RefinementMounted
    /\ LET promptText == IF overridePrompt # "" THEN overridePrompt ELSE input
           typed == [refinement EXCEPT !.input = input]
           withUser == [refinement EXCEPT !.chatHistory = Append(@, UserMessage(promptText)),
                                          !.input = ""]
       IN IF SendRejected(promptText)
          THEN /\ LocalRender(calls, proposal, typed, final)
               /\ last' = [op |-> "handleSend", accepted |-> FALSE, early |-> FALSE]
          ELSE IF RefineThrowsEarly(refinement.currentImage)
               THEN /\ LocalRender(calls, proposal, RefineFailed(withUser), final)
                    /\ last' = [op |-> "handleSend", accepted |-> TRUE, early |-> TRUE]
               ELSE /\ LocalRender(Append(calls, RefineCall(currentProjectId, briefData,
                                                            refinement.currentImage,
                                                            promptText)),
                                   proposal,
                                   [withUser EXCEPT !.isProcessing = TRUE],
                                   final)
                    /\ last' = [op |-> "handleSend", accepted |-> TRUE, early |-> FALSE]
    /\ UNCHANGED <<now, uuids>>

\* typing text (setInput) and Enter in the textarea, which is disabled while
\* processing
PressEnter(text) == ~refinement.isProcessing /\ handleSend("", text)

\* typing text and the Send button, disabled={!input.trim() || isProcessing}
ClickSend(text) ==
    /\ ~refinement.isProcessing
    /\ Trim(text) # ""
    /\ handleSend("", text)

\* the "Completely Redesign" button, never disabled
handleCompleteRedesign == handleSend(COMPLETE_REDESIGN, refinement.input)

\* handleSend after `await refineArchitecturalImage(...)`: the success branch,
\* or the catch block; then finally
RefineSettle(i, outcome) ==
    /\ ~Crashed
    /\ calls[i].kind = "refine"
    /\ LET c == calls[i]
           newImageUrl == ImageUrlOf(outcome)
           newVersionId == Uuid(FreshImageNum)
       IN IF outcome # "throw" /\ newImageUrl # ""
          THEN /\ projects' = addToArchive(projects, c.pid, "REFINEMENT",
                                           [id |-> newVersionId, url |-> newImageUrl,
                                            type |-> "ITERATION"])
               /\ Completion(RemoveAt(calls, i), proposal,
                             IF c.live
                             THEN [refinement EXCEPT
                                     !.currentImage = newImageUrl,
                                     !.historyVersions =
                                         Append(@, [id |-> newVersionId,
                                                    imageUrl |-> newImageUrl,
                                                    prompt |-> c.text]),
                                     !.chatHistory = Append(@, ModelMessage(newImageUrl)),
                                     !.isProcessing = FALSE]
                             ELSE refinement,
                             final)
               /\ uuids' = uuids + 1
               /\ last' = [op |-> "RefineSettle", live |-> c.live, ok |-> TRUE,
                           text |-> c.text, image |-> newImageUrl]
          ELSE /\ LocalRender(RemoveAt(calls, i), proposal,
                              IF c.live THEN RefineFailed(refinement)
                              ELSE refinement,
                              final)
               /\ UNCHANGED uuids
               /\ last' = [op |-> "RefineSettle", live |-> c.live, ok |-> FALSE]
    /\ UNCHANGED now

\* variant of restoreVersion that clears the view instead of showing the version
restoreVersionStale(version) ==
    /\ RefinementMounted
    /\ LocalRender(calls, proposal,
                   [refinement EXCEPT !.currentImage = "",
                                      !.chatHistory = Append(@, RestoreMessage)],
                   final)
    /\ UNCHANGED <<now, uuids>>
    /\ last' = [op |-> "restoreVersion", version |-> version]

\* variant of restoreVersion that drops the other versions from the ledger
restoreVersionRewinding(version) ==
    /\ RefinementMounted
    /\ LocalRender(calls, proposal,
                   [refinement EXCEPT !.currentImage = version.imageUrl,
                                      !.historyVersions = <<version>>,
                                      !.chatHistory = Append(@, RestoreMessage)],
                   final)
    /\ UNCHANGED <<now, uuids>>
    /\ last' = [op |-> "restoreVersion", version |-> version]

restoreVersion(version) ==
    /\ RefinementMounted
    /\ LocalRender(calls, proposal,
                   [refinement EXCEPT !.currentImage = version.imageUrl,
                                      !.chatHistory = Append(@, RestoreMessage)],
                   final)
    /\ UNCHANGED <<now, uuids>>
    /\ last' = [op |-> "restoreVersion", version |-> version]

\* handleRefinementComplete
handleRefinementComplete(image, history) ==
    /\ finalImage' = image
    /\ chatHistory' = history
    /\ projects' = updateCurrentProject(projects, currentProjectId, briefData,
                                        [finalImage |-> image])
    /\ stage' = "FINAL"
    /\ UNCHANGED <<briefData, researchData, selectedOption, currentProjectId,
                   isLibraryOpen, now, uuids>>
    /\ AppRender(calls, proposal, refinement, final)

\* "Finalize Selection": onFinalize(currentImage, chatHistory)
Finalize ==
    /\ RefinementMounted
    /\ handleRefinementComplete(refinement.currentImage, refinement.chatHistory)
    /\ last' = [op |-> "Finalize"]

\* ------------------------------------------------------------ the bounds
\* the step leaves room in the conversation log for n more turns
ChatRoom(n, maxChat) ==
    RefinementMounted => Len(refinement.chatHistory) + n <= maxChat
\* the step may make one more async call
CallRoom(maxCalls, maxIssued) == Len(calls) < maxCalls /\ issued < maxIssued
\* the step stays within the bounds
Within(maxCalls, maxIssued, maxIds) ==
    /\ Len(calls') <= maxCalls
    /\ issued' <= maxIssued
    /\ uuids' <= maxIds
    /\ now' <= MaxTime
    /\ currentProjectId' <= MaxProjectIds

InSession == Within(MaxCalls, MaxIssued, MaxImageIds)
SessionCallRoom == CallRoom(MaxCalls, MaxIssued)

\* ------------------------------------------------- the whole application
Next ==
    \/ (\E data \in BriefingInputs : handleBriefingComplete(data)) /\ InSession
    \/ startNewProject /\ InSession
    \/ (\E i \in 1..Len(projects) : loadProject(projects[i])) /\ InSession
    \/ OpenLibrary /\ InSession
    \/ CloseLibrary /\ InSession
    \/ (\E i \in 1..Len(calls) : \E outcome \in ResearchOutcomes :
            ResearchSettle(i, outcome)) /\ InSession
    \/ (\E i \in 1..Len(calls) : ResearchTimer(i)) /\ InSession
    \/ (\E i \in 1..Len(calls) : \E outcomes \in [1..3 -> BatchOutcomes] :
            BatchSettle(i, outcomes)) /\ InSession
    \/ handleNext /\ InSession
    \/ handlePrev /\ InSession
    \/ OpenSynthesisUI /\ InSession
    \/ (\E synthesisPrompt \in SynthesisPrompts :
            SessionCallRoom /\ handleSynthesis(synthesisPrompt)) /\ InSession
    \/ handleOptionSelected /\ InSession
    \/ (\E text \in InputTexts :
            ChatRoom(2, MaxChat) /\ SessionCallRoom /\ PressEnter(text)) /\ InSession
    \/ (\E text \in InputTexts :
            ChatRoom(2, MaxChat) /\ SessionCallRoom /\ ClickSend(text)) /\ InSession
    \/ (ChatRoom(2, MaxChat) /\ SessionCallRoom /\ handleCompleteRedesign) /\ InSession
    \/ (\E i \in 1..Len(calls) : \E outcome \in RefineOutcomes :
            RefineSettle(i, outcome)) /\ InSession
    \/ (\E i \in 1..Len(refinement.historyVersions) :
            ChatRoom(1, MaxChat) /\ restoreVersion(refinement.historyVersions[i]))
       /\ InSession
    \/ Finalize /\ InSession

Spec == Init /\ [][Next]_vars

\* ------------------------------------------------- a refinement session
\* what generateArchitecturalConcepts resolved with before the selection: one
\* or two concepts survived
EntryResults == {<<DataUrl("A"), "", "">>, <<"", DataUrl("A"), DataUrl("A")>>}

\* The state handleOptionSelected leaves: project 1 went through briefing,
\* research and the initial batch, and the designer selected one option.
AtSelection(brief, options) ==
    LET research == performContextResearch("R1")
        briefed == updateCurrentProject(<<>>, 1, NULL,
                                        [brief |-> brief, name |-> ProjectName(brief)])
        researched == updateCurrentProject(briefed, 1, brief, [research |-> research])
    IN ArchiveAll(researched, 1, "PROPOSAL", OptionImages(options, "CONCEPT"))

InitRefine ==
    \E brief \in BriefingInputs : \E res \in EntryResults :
      LET options == generateArchitecturalConcepts(res, 1)
      IN \E k \in 1..Len(options) :
           /\ stage = "REFINEMENT"
           /\ briefData = brief
           /\ researchData = performContextResearch("R1")
           /\ selectedOption = options[k]
           /\ finalImage = ""
           /\ chatHistory = <<>>
           /\ projects = AtSelection(brief, options)
           /\ currentProjectId = 1
           /\ isLibraryOpen = FALSE
           /\ storage = JSONstringify(projects)
           /\ root = "mounted"
           /\ proposal = InitProposal
           /\ refinement = InitRefinement(options[k])
           /\ final = InitFinal
           /\ calls = <<>>
           /\ now = 0
           /\ uuids = Len(options)
           /\ issued = 2
           /\ last = [op |-> "handleOptionSelected"]

InRefine == Within(MaxRefineCalls, MaxRefineIssued, MaxRefineIds)
RefineCallRoom == CallRoom(MaxRefineCalls, MaxRefineIssued)

NextRefine ==
    \/ (\E text \in InputTexts :
            ChatRoom(2, MaxRefineChat) /\ RefineCallRoom /\ PressEnter(text)) /\ InRefine
    \/ (\E text \in InputTexts :
            ChatRoom(2, MaxRefineChat) /\ RefineCallRoom /\ ClickSend(text)) /\ InRefine
    \/ (ChatRoom(2, MaxRefineChat) /\ RefineCallRoom /\ handleCompleteRedesign)
       /\ InRefine
    \/ (\E i \in 1..Len(calls) : \E outcome \in RefineOutcomes :
            RefineSettle(i, outcome)) /\ InRefine
    \/ (\E i \in 1..Len(refinement.historyVersions) :
            ChatRoom(1, MaxRefineChat) /\ restoreVersion(refinement.historyVersions[i]))
       /\ InRefine
    \/ Finalize /\ InRefine
    \/ startNewProject /\ InRefine

SpecRefine == InitRefine /\ [][NextRefine]_vars

\* ------------------------------------------------- a stay in the final stage
\* The state "Finalize Selection" leaves when the designer finalizes the
\* selected option as it is: FinalStep is mounted and its effect has made the
\* multi-angle call.
\* a project an earlier session finalized, which the archive still holds
EarlierProject ==
    [id |-> 0, name |-> ProjectName([typology |-> "Villa", location |-> "Riyadh"]),
     brief |-> [typology |-> "Villa", location |-> "Riyadh"],
     research |-> performContextResearch("R1"),
     images |-> <<>>, finalImage |-> DataUrl("B")]

InitFinalStage ==
    \E brief \in BriefingInputs : \E res \in EntryResults :
      LET options == generateArchitecturalConcepts(res, 1)
      IN \E k \in 1..Len(options) :
           /\ stage = "FINAL"
           /\ briefData = brief
           /\ researchData = performContextResearch("R1")
           /\ selectedOption = options[k]
           /\ finalImage = options[k].imageUrl
           /\ chatHistory = <<InitMessage>>
           /\ projects = updateCurrentProject(AtSelection(brief, options), 1, brief,
                                              [finalImage |-> options[k].imageUrl])
                         \o <<EarlierProject>>
           /\ currentProjectId = 1
           /\ isLibraryOpen = FALSE
           /\ storage = JSONstringify(projects)
           /\ root = "mounted"
           /\ proposal = InitProposal
           /\ refinement = NoRefinement
           /\ final = InitFinal
           /\ calls = <<AnglesCall(1, brief, options[k].imageUrl)>>
           /\ now = 0
           /\ uuids = Len(options)
           /\ issued = 3
           /\ last = [op |-> "Finalize"]

InFinal == Within(MaxFinalCalls, MaxFinalIssued, MaxImageIds)

NextFinal ==
    \/ (\E i \in 1..Len(calls) : \E outcomes \in [1..3 -> BatchOutcomes] :
            BatchSettle(i, outcomes)) /\ InFinal
    \/ OpenLibrary /\ InFinal
    \/ CloseLibrary /\ InFinal
    \/ (\E i \in 1..Len(projects) : loadProject(projects[i])) /\ InFinal
    \/ startNewProject /\ InFinal

SpecFinal == InitFinalStage /\ [][NextFinal]_vars

\* ------------------------------------------------- start-up and reload
\* the largest image number among the stored images: crypto.randomUUID()
\* never hands out an id that is stored already
StoredUuids(projs) ==
    Max({0} \cup {img.id[2] : img \in
            {x \in UNION {SeqToSet(p.images) : p \in SeqToSet(projs)} :
                x.id[1] = "uuid"}})

\* App mounts: the initializer of `projects` reads localStorage, the
\* initializer of `currentProjectId` draws a fresh id, and the persistence
\* effect writes the list back. A JSON.parse that throws leaves nothing
\* mounted.
AppMount ==
    /\ root = "unmounted"
    /\ IF ~Falsy(storage) /\ JSONparseThrows(storage)
       THEN /\ root' = "failed"
            /\ UNCHANGED <<projects, currentProjectId, storage, uuids>>
       ELSE /\ root' = "mounted"
            /\ projects' = IF Falsy(storage) THEN <<>> ELSE JSONparse(storage)
            /\ currentProjectId' = Max({p.id : p \in SeqToSet(projects')} \cup {0}) + 1
            /\ storage' = JSONstringify(projects')
            /\ uuids' = StoredUuids(projects')
    /\ UNCHANGED <<stage, briefData, researchData, selectedOption, finalImage,
                   chatHistory, isLibraryOpen, proposal, refinement, final,
                   calls, now, issued>>
    /\ last' = [op |-> "AppMount", saved |-> storage]

\* The page is reloaded (the browser's reload, or ProposalStep's "Reload"):
\* every component's state and every pending call is gone, localStorage stays.
Restart ==
    /\ root # "unmounted"
    /\ root' = "unmounted"
    /\ stage' = "BRIEFING"
    /\ briefData' = NULL
    /\ researchData' = NULL
    /\ selectedOption' = NULL
    /\ finalImage' = ""
    /\ chatHistory' = <<>>
    /\ projects' = <<>>
    /\ currentProjectId' = 0
    /\ isLibraryOpen' = FALSE
    /\ proposal' = InitProposal
    /\ refinement' = NoRefinement
    /\ final' = InitFinal
    /\ calls' = <<>>
    /\ uuids' = 0
    /\ issued' = 0
    /\ UNCHANGED <<storage, now>>
    /\ last' = [op |-> "Restart", running |-> root = "mounted", projects |-> projects]

\* what localStorage may hold when the page is opened: nothing, an empty
\* text, a text that is not JSON, or a list an earlier run wrote
SavedLists ==
    LET selected == {AtSelection(brief, generateArchitecturalConcepts(res, 1)) :
                        brief \in BriefingInputs, res \in EntryResults}
    IN {<<>>} \cup selected
       \cup {updateCurrentProject(l, 1, l[1].brief, [finalImage |-> l[1].images[1].url]) :
                l \in selected}
StoredContents ==
    {NULL, EMPTY_TEXT, CORRUPT} \cup {JSONstringify(l) : l \in SavedLists}

InitStartup ==
    /\ root = "unmounted"
    /\ storage \in StoredContents
    /\ stage = "BRIEFING"
    /\ briefData = NULL
    /\ researchData = NULL
    /\ selectedOption = NULL
    /\ finalImage = ""
    /\ chatHistory = <<>>
    /\ projects = <<>>
    /\ currentProjectId = 0
    /\ isLibraryOpen = FALSE
    /\ proposal = InitProposal
    /\ refinement = NoRefinement
    /\ final = InitFinal
    /\ calls = <<>>
    /\ now = 0
    /\ uuids = 0
    /\ issued = 0
    /\ last = [op |-> "init"]

InStartup == Within(MaxStartupCalls, MaxStartupIssued, MaxImageIds)

NextStartup ==
    \/ AppMount /\ InStartup
    \/ Restart /\ InStartup
    \/ (\E data \in BriefingInputs : handleBriefingComplete(data)) /\ InStartup
    \/ startNewProject /\ InStartup
    \/ (\E i \in 1..Len(projects) : loadProject(projects[i])) /\ InStartup
    \/ OpenLibrary /\ InStartup
    \/ CloseLibrary /\ InStartup
    \/ (\E i \in 1..Len(calls) : \E outcome \in ResearchOutcomes :
            ResearchSettle(i, outcome)) /\ InStartup
    \/ (\E i \in 1..Len(calls) : ResearchTimer(i)) /\ InStartup

SpecStartup == InitStartup /\ [][NextStartup]_vars

\* ------------------------------------------------- a stay in the proposal stage
\* The state the research timer leaves: ProposalStep has just mounted and its
\* effect has made the initial batch call. The three requests of a batch
\* settle one at a time.
InitBatch ==
    \E brief \in BriefingInputs :
      LET research == performContextResearch("R1")
          briefed == updateCurrentProject(<<>>, 1, NULL,
                                          [brief |-> brief, name |-> ProjectName(brief)])
      IN /\ stage = "PROPOSAL"
         /\ briefData = brief
         /\ researchData = research
         /\ selectedOption = NULL
         /\ finalImage = ""
         /\ chatHistory = <<>>
         /\ projects = updateCurrentProject(briefed, 1, brief, [research |-> research])
         /\ currentProjectId = 1
         /\ isLibraryOpen = FALSE
         /\ storage = JSONstringify(projects)
         /\ root = "mounted"
         /\ proposal = InitProposal
         /\ refinement = NoRefinement
         /\ final = InitFinal
         /\ calls = <<ConceptsCall(1, brief)>>
         /\ now = 0
         /\ uuids = 0
         /\ issued = 2
         /\ last = [op |-> "ResearchTimer", live |-> TRUE, research |-> research,
                    pid |-> 1]

InBatch == Within(MaxBatchCalls, MaxBatchIssued, MaxBatchIds)

NextBatch ==
    \/ (\E i \in 1..Len(calls) : \E k \in 1..3 : \E outcome \in BatchOutcomes :
            BatchMemberSettle(i, k, outcome)) /\ InBatch
    \/ handleNext /\ InBatch
    \/ handlePrev /\ InBatch
    \/ OpenSynthesisUI /\ InBatch
    \/ (\E synthesisPrompt \in SynthesisPrompts :
            CallRoom(MaxBatchCalls, MaxBatchIssued) /\ handleSynthesis(synthesisPrompt))
       /\ InBatch
    \/ handleOptionSelected /\ InBatch

SpecBatch == InitBatch /\ [][NextBatch]_vars

\* ------------------------------------------------- the archive store alone
\* The two writers of the project list, applied to the lists an earlier run
\* may have left, for every project id and image id a caller may hold.
ArchiveImages ==
    {[id |-> Uuid(n), url |-> DataUrl("A"), type |-> "ITERATION"] : n \in 1..MaxArchiveIds}

InitArchive ==
    /\ root = "mounted"
    /\ projects \in SavedLists
    /\ storage = JSONstringify(projects)
    /\ stage = "BRIEFING"
    /\ briefData = NULL
    /\ researchData = NULL
    /\ selectedOption = NULL
    /\ finalImage = ""
    /\ chatHistory = <<>>
    /\ currentProjectId = 2
    /\ isLibraryOpen = FALSE
    /\ proposal = InitProposal
    /\ refinement = NoRefinement
    /\ final = InitFinal
    /\ calls = <<>>
    /\ now = 0
    /\ uuids = 0
    /\ issued = 0
    /\ last = [op |-> "init"]

\* onArchive(img) with the project id and stage of the caller's closure
ArchiveWrite(pid, stg, img) ==
    /\ projects' = addToArchive(projects, pid, stg, img)
    /\ storage' = JSONstringify(projects')
    /\ UNCHANGED <<stage, briefData, researchData, selectedOption, finalImage,
                   chatHistory, currentProjectId, isLibraryOpen, root, proposal,
                   refinement, final, calls, now, uuids, issued>>
    /\ last' = [op |-> "addToArchive", pid |-> pid, stage |-> stg, img |-> img]

\* updateCurrentProject(updates) with the project id and brief of the
\* caller's closure
UpdateWrite(pid, brief, updates) ==
    /\ projects' = updateCurrentProject(projects, pid, brief, updates)
    /\ storage' = JSONstringify(projects')
    /\ UNCHANGED <<stage, briefData, researchData, selectedOption, finalImage,
                   chatHistory, currentProjectId, isLibraryOpen, root, proposal,
                   refinement, final, calls, now, uuids, issued>>
    /\ last' = [op |-> "updateCurrentProject", pid |-> pid, updates |-> updates]

NextArchive ==
    \/ \E pid \in 1..MaxArchiveProjects : \E img \in ArchiveImages :
          ArchiveWrite(pid, "REFINEMENT", img)
    \/ \E pid \in 1..MaxArchiveProjects : \E brief \in BriefingInputs :
          UpdateWrite(pid, brief, [finalImage |-> DataUrl("B")])

SpecArchive == InitArchive /\ [][NextArchive]_vars

\* ================================================================ properties
\* the refinement gateway calls made by the mounted RefinementStep that have
\* not settled
RefineInFlight(cs) == {i \in 1..Len(cs) : cs[i].kind = "refine" /\ cs[i].live}

\* C1: in a refinement session at most one refinement gateway call is in
\* flight at any time, and a submission through handleSend made while a
\* request has not settled starts no gateway call and appends no user turn to
\* the conversation log.
C1_OneRefinementInFlight ==
    [][/\ Cardinality(RefineInFlight(calls')) <= 1
       /\ (last'.op = "handleSend" /\ refinement.isProcessing) =>
              /\ calls' = calls
              /\ issued' = issued
              /\ refinement'.chatHistory = refinement.chatHistory]_vars

\* C1's case: "Completely Redesign" was pressed while a request was in flight
C1_Witness ==
    /\ last.op = "handleSend" /\ ~last.accepted
    /\ refinement.isProcessing
    /\ Cardinality(RefineInFlight(calls)) = 1

\* a completion of a call whose component was torn down after the call was made
StaleCompletion == last'.op \in {"RefineSettle", "BatchComplete"} /\ ~last'.live

\* C2: when a stage component is torn down while one of its gateway calls is
\* in flight, the later completion of that call changes no session variable
\* and adds no image to any project's archive.
C2_StaleCompletionMutatesNothing ==
    [][StaleCompletion =>
          UNCHANGED <<stage, briefData, researchData, selectedOption, finalImage,
                      chatHistory, projects, currentProjectId,
                      proposal, refinement, final>>]_vars

\* the members of a settled batch that failed: threw, or yielded no image
FailedMembers(res) == {k \in 1..Len(res) : res[k] \in {"", "throw"}}
\* what identifies the k-th returned result as the j-th issued call's
ReturnedFrom(kind, returned, j, k, res) ==
    CASE kind = "concepts" ->
            returned[k].title = ConceptTitles[j] /\ returned[k].imageUrl = res[j]
      [] kind = "hybrid" ->
            returned[k].title = HybridTitles[j] /\ returned[k].imageUrl = res[j]
      [] kind = "angles" -> returned[k] = res[j]

\* C3: when exactly one of the three parallel gateway calls of a batch
\* operation fails and the other two succeed, the operation returns exactly
\* the two successful results, in the order their calls were issued.
C3_OneFailureReturnsTwo ==
    (last.op = "BatchComplete" /\ Cardinality(FailedMembers(last.res)) = 1) =>
        /\ ~last.rejected
        /\ Len(last.returned) = 2
        /\ LET ok == Survivors([k \in 1..3 |->
                                  IF k \in FailedMembers(last.res) THEN "" ELSE last.res[k]], 1)
           IN \A k \in 1..2 :
                 ReturnedFrom(last.kind, last.returned, ok[k], k, last.res)

\* how many images of the list carry the id
Copies(images, id) == Cardinality({a \in 1..Len(images) : images[a].id = id})

\* C4: no project's image list holds two images with the same id, and
\* addToArchive called again with an id the project already holds leaves
\* exactly one copy of that image and changes nothing.
C4_UniqueImageIds ==
    \A i \in 1..Len(projects) :
        \A a \in 1..Len(projects[i].images) :
            LET img == projects[i].images[a]
                again == addToArchive(projects, projects[i].id, stage,
                                      [id |-> img.id, url |-> img.url, type |-> img.type])
            IN /\ Copies(projects[i].images, img.id) = 1
               /\ Copies(again[i].images, img.id) = 1
               /\ again = projects

\* C4's case: FinalStep's effect ran again and archived, within the same
\* millisecond, the angles the project already held
C4_Witness ==
    /\ stage = "FINAL"
    /\ last.op = "BatchComplete" /\ last.kind = "angles" /\ last.returned # <<>>
    /\ calls = <<>>
    /\ \E i \in 1..Len(projects) :
          /\ projects[i].id = currentProjectId
          /\ Copies(projects[i].images, AngleId(0, now)) = 1

\* a turn of the conversation log that reports an error: role model, no image
IsErrorTurn(m) == m.role = "model" /\ m.imageUrl = "" /\ m.text = ERROR_TEXT

\* C5: when a refinement request fails (the gateway throws, the current image
\* cannot be decoded) or returns no image, the ledger and the current image
\* are unchanged, nothing is archived, exactly one error turn is appended to
\* the conversation log, and no further gateway call is made.
C5_FailedRefinement ==
    [][/\ (last'.op = "RefineSettle" /\ last'.live /\ ~last'.ok) =>
             /\ refinement'.historyVersions = refinement.historyVersions
             /\ refinement'.currentImage = refinement.currentImage
             /\ projects' = projects
             /\ Len(refinement'.chatHistory) = Len(refinement.chatHistory) + 1
             /\ SubSeq(refinement'.chatHistory, 1, Len(refinement.chatHistory))
                    = refinement.chatHistory
             /\ IsErrorTurn(refinement'.chatHistory[Len(refinement'.chatHistory)])
             /\ RefineInFlight(calls') = {}
             /\ issued' = issued
       /\ (last'.op = "handleSend" /\ last'.early) =>
             /\ refinement'.historyVersions = refinement.historyVersions
             /\ refinement'.currentImage = refinement.currentImage
             /\ projects' = projects
             /\ Len(refinement'.chatHistory) = Len(refinement.chatHistory) + 2
             /\ SubSeq(refinement'.chatHistory, 1, Len(refinement.chatHistory))
                    = refinement.chatHistory
             /\ refinement'.chatHistory[Len(refinement.chatHistory) + 1].role = "user"
             /\ IsErrorTurn(refinement'.chatHistory[Len(refinement'.chatHistory)])
             /\ calls' = calls
             /\ issued' = issued]_vars

\* C5's case: a request settled without an image after an earlier one had
\* succeeded, so that the ledger holds more than the seed
C5_Witness ==
    /\ last.op = "RefineSettle" /\ last.live /\ ~last.ok
    /\ Len(refinement.historyVersions) = 2
    /\ refinement.currentImage = refinement.historyVersions[2].imageUrl

\* the successful refinements the conversation log records
SuccessTurns(log) == {i \in 1..Len(log) : log[i].text = UPDATED_TEXT}

\* C6: after N successful refinements, with failed requests and restores in
\* between, the ledger has N + 1 entries, and entry 0 is the image of the
\* selected option with the instruction text 'Original Concept'.
C6_LedgerLength ==
    RefinementMounted =>
        /\ Len(refinement.historyVersions)
              = Cardinality(SuccessTurns(refinement.chatHistory)) + 1
        /\ refinement.historyVersions[1].imageUrl = selectedOption.imageUrl
        /\ refinement.historyVersions[1].prompt = "Original Concept"

\* C6's case: two successful refinements and a failed request
C6_Witness ==
    /\ RefinementMounted
    /\ Len(refinement.historyVersions) = 3
    /\ \E i \in 1..Len(refinement.chatHistory) : IsErrorTurn(refinement.chatHistory[i])

\* C7: restoreVersion(v) leaves the ledger as it is, sets the current image
\* to v's image, appends exactly one entry to the conversation log and
\* changes nothing in the project archive.
C7_RestoreVersion ==
    [][last'.op = "restoreVersion" =>
          /\ refinement'.historyVersions = refinement.historyVersions
          /\ refinement'.currentImage = last'.version.imageUrl
          /\ Len(refinement'.chatHistory) = Len(refinement.chatHistory) + 1
          /\ SubSeq(refinement'.chatHistory, 1, Len(refinement.chatHistory))
                 = refinement.chatHistory
          /\ projects' = projects]_vars

\* C7's case: the seed version was restored after a refinement had replaced
\* the current image
C7_Witness ==
    /\ last.op = "restoreVersion" /\ last.version.id = V0
    /\ Len(refinement.historyVersions) = 2
    /\ refinement.historyVersions[2].imageUrl # last.version.imageUrl
    /\ refinement.currentImage = last.version.imageUrl

\* C8: loadProject(P) sets the stage from P's data alone (Final with a final
\* image, else Proposal with research, else Briefing) and sets the current
\* project id to P's id.
C8_LoadProject ==
    [][last'.op = "loadProject" =>
          /\ currentProjectId' = last'.id
          /\ \E i \in 1..Len(projects) :
                /\ projects[i].id = last'.id
                /\ stage' = IF projects[i].finalImage # "" THEN "FINAL"
                            ELSE IF projects[i].research # NULL THEN "PROPOSAL"
                            ELSE "BRIEFING"]_vars

\* C8's case: a project that has both research and a final image was opened
\* from another session
C8_Witness ==
    /\ last.op = "loadProject" /\ stage = "FINAL"
    /\ \E i \in 1..Len(projects) :
          /\ projects[i].id = currentProjectId
          /\ projects[i].research # NULL
    /\ selectedOption = NULL

\* C9: startNewProject yields stage Briefing with brief, research, selected
\* option, final image and conversation log empty, a current project id that
\* differs from the one before, and the same project list.
C9_StartNewProject ==
    [][last'.op = "startNewProject" =>
          /\ stage' = "BRIEFING"
          /\ briefData' = NULL /\ researchData' = NULL /\ selectedOption' = NULL
          /\ finalImage' = "" /\ chatHistory' = <<>>
          /\ currentProjectId' # currentProjectId
          /\ projects' = projects]_vars

\* C9's case: a new project was started from a finalized one
C9_Witness ==
    /\ last.op = "startNewProject"
    /\ \E i \in 1..Len(projects) : projects[i].finalImage # ""

\* the session has been briefed and nothing else: the project list holds the
\* session's project alone, without research and without images
FreshlyBriefed ==
    /\ stage = "RESEARCH"
    /\ Len(projects) = 1
    /\ projects[1].id = currentProjectId
    /\ projects[1].brief = briefData
    /\ projects[1].research = NULL
    /\ projects[1].images = <<>>

\* C10: in a fresh session with an empty project list, completing briefing
\* with typology T and location L runs the research stage with that
\* BriefingData, and when research completes with R the project list holds
\* exactly one project, with the current id, named 'T in L', with research R
\* and no images, and the stage is Proposal.
C10_FreshSessionFlow ==
    [][/\ (last'.op = "handleBriefingComplete" /\ projects = <<>>) =>
             /\ stage' = "RESEARCH"
             /\ briefData' = last'.data
             /\ \E i \in 1..Len(calls') :
                   /\ calls'[i].kind = "research" /\ calls'[i].live
                   /\ calls'[i].brief = last'.data
       /\ (last'.op = "ResearchTimer" /\ last'.live /\ FreshlyBriefed) =>
             /\ stage' = "PROPOSAL"
             /\ Len(projects') = 1
             /\ projects'[1].id = currentProjectId'
             /\ projects'[1].name
                   = briefData.typology \o " in " \o briefData.location
             /\ projects'[1].research = last'.research
             /\ researchData' = last'.research
             /\ projects'[1].images = <<>>]_vars

\* C10's case: the first session went from briefing through research without
\* anything else happening
C10_Witness ==
    /\ last.op = "ResearchTimer" /\ last.live
    /\ stage = "PROPOSAL" /\ currentProjectId = 1 /\ issued = 2 /\ uuids = 0
    /\ Len(projects) = 1
    /\ projects[1].name = "Villa in Riyadh"
    /\ projects[1].research = [summary |-> "R1"]

\* ===================================================================== C11
ProjectIds(projs) == {projs[i].id : i \in 1..Len(projs)}
ProjectsWithId(projs, q) == {projs[i] : i \in {j \in 1..Len(projs) : projs[j].id = q}}

\* C11: every step that writes the project list (addToArchive,
\* updateCurrentProject) changes or creates only the project whose id is the
\* session's current project id at the moment of the write, also when the
\* write comes from a gateway completion or a timer that was started before
\* startNewProject / loadProject changed the id.
C11_WritesHitCurrentProject ==
    [][\A q \in ProjectIds(projects) \cup ProjectIds(projects') :
          q # currentProjectId =>
              ProjectsWithId(projects', q) = ProjectsWithId(projects, q)]_vars

\* ===================================================================== C12
\* C12: the current project id changes only in a startNewProject or a
\* loadProject step; briefing completion, research completion, option
\* selection, finalize, archiving and opening / closing the library leave it
\* as it is.
C12_IdChangesOnlyOnNewOrLoad ==
    [][currentProjectId' # currentProjectId =>
          last'.op \in {"startNewProject", "loadProject"}]_vars

\* a session re-keyed by startNewProject went through briefing, research,
\* selection and finalize and still has the id it was given
C12_Witness ==
    /\ last.op = "Finalize"
    /\ currentProjectId = 2
    /\ \E i \in 1..Len(projects) :
          projects[i].id = 2 /\ projects[i].finalImage # ""

\* ===================================================================== C13
\* C13: at start-up the project list is the stored collection, and when the
\* stored content is absent or corrupt the application still starts, with an
\* empty list: reading the store is never fatal.
C13_StartupNeverFatal ==
    last.op = "AppMount" =>
        /\ root = "mounted"
        /\ projects = (IF "json" \in DOMAIN last.saved THEN last.saved.json ELSE <<>>)

\* ===================================================================== C14
\* C14: every change of the project list is written, as the complete list,
\* under the one storage key before anything else changes the list: whenever
\* the application is idle the stored collection equals the list in memory,
\* and a restart reloads exactly that list.
C14_StoredListIsTheList ==
    /\ [](root = "mounted" =>
            /\ ~Falsy(storage) /\ ~JSONparseThrows(storage)
            /\ JSONparse(storage) = projects)
    /\ [][last.op = "Restart" /\ last.running /\ last'.op = "AppMount" =>
            root' = "mounted" /\ projects' = last.projects]_vars

\* a project this run created was reloaded after a restart
C14_Witness ==
    /\ last.op = "AppMount"
    /\ root = "mounted"
    /\ Len(projects) = 1
    /\ projects[1].images = <<>>
    /\ JSONparse(storage) = projects

\* ===================================================================== C15
\* C15: a batch (initial concepts, hybrids, angles) issues its three calls
\* together and completes towards its caller only after all three have
\* settled: no member is still pending when the caller's continuation runs,
\* however a sibling failed.
C15_BatchCompletesAfterAllSettle ==
    last.op = "BatchComplete" => \A k \in 1..3 : last.res[k] # PENDING

\* ===================================================================== C16
\* C16: when a synthesis batch yields no usable result (all three hybrids came
\* back without an image, or the batch failed), handleSynthesis lets the
\* Proposal view resume: isSynthesizing is false, the option list is what it
\* was, and 0 <= currentIndex < number of options.
C16_EmptySynthesisResumes ==
    [][(/\ last'.op = "BatchComplete" /\ last'.kind = "hybrid" /\ last'.live
        /\ last'.returned = <<>>)
       => /\ ~proposal'.isSynthesizing
          /\ proposal'.options = proposal.options
          /\ proposal'.currentIndex \in 0..(Len(proposal'.options) - 1)]_vars

\* ===================================================================== C17
\* C17: in every reachable state the session holds the data its stage needs:
\* Research a brief; Proposal a brief and research; Refinement a brief and a
\* selected option; Final a brief, research and a non-empty final image.
C17_StageHasItsData ==
    /\ stage = "RESEARCH" => briefData # NULL
    /\ stage = "PROPOSAL" => briefData # NULL /\ researchData # NULL
    /\ stage = "REFINEMENT" => briefData # NULL /\ selectedOption # NULL
    /\ stage = "FINAL" => briefData # NULL /\ researchData # NULL /\ finalImage # ""

\* ===================================================================== C18
StageRank(s) ==
    CASE s = "BRIEFING" -> 0 [] s = "RESEARCH" -> 1 [] s = "PROPOSAL" -> 2
      [] s = "REFINEMENT" -> 3 [] s = "FINAL" -> 4

\* C18: apart from loadProject and startNewProject steps (and a reload of the
\* page, which ends the session), the stage never moves to an earlier stage:
\* no completion callback, whenever it fires, takes the session back.
C18_StageNeverMovesBack ==
    [][StageRank(stage') < StageRank(stage) =>
          last'.op \in {"loadProject", "startNewProject", "Restart"}]_vars

\* ===================================================================== C19
\* after is before with the project pid upserted with the given fields
IsUpsert(before, after, pid, fields) ==
    IF \E i \in 1..Len(before) : before[i].id = pid
    THEN /\ Len(after) = Len(before)
         /\ \A i \in 1..Len(before) :
               IF before[i].id # pid THEN after[i] = before[i]
               ELSE /\ DOMAIN after[i] = DOMAIN before[i]
                    /\ \A f \in DOMAIN before[i] :
                          after[i][f] = IF f \in DOMAIN fields THEN fields[f]
                                        ELSE before[i][f]
    ELSE /\ Len(after) = Len(before) + 1
         /\ Tail(after) = before
         /\ after[1].id = pid
         /\ after[1].images = <<>>
         /\ \A f \in DOMAIN fields : after[1][f] = fields[f]

\* C19: updateCurrentProject(fields) is an upsert on the project id its
\* handler holds. When the project exists the list keeps its length and
\* order, the other projects are untouched, exactly the given fields of that
\* project are replaced and the rest (its images included) is kept; when it
\* does not exist, exactly one new project with that id, the given fields and
\* an empty image list is inserted at the head.
C19_UpdateIsUpsert ==
    [][/\ last'.op = "handleBriefingComplete" =>
            IsUpsert(projects, projects', currentProjectId,
                     [brief |-> last'.data, name |-> ProjectName(last'.data)])
       /\ last'.op = "ResearchTimer" =>
            IsUpsert(projects, projects', last'.pid, [research |-> last'.research])
       /\ last'.op = "Finalize" =>
            IsUpsert(projects, projects', currentProjectId,
                     [finalImage |-> finalImage'])]_vars

\* an update of an existing project that holds images, next to another
\* project: the finalized project kept its images
C19_Witness ==
    /\ last.op = "Finalize"
    /\ Len(projects) = 2
    /\ \E i \in 1..2 : /\ projects[i].id = currentProjectId
                        /\ projects[i].finalImage # ""
                        /\ projects[i].images # <<>>

\* ===================================================================== C20
\* C20: addToArchive for a project id the list does not hold is a silent
\* no-op; when the project exists and holds no image with the new image's id,
\* the image is inserted at the head of that project's image list and nothing
\* else changes.
C20_AddToArchive ==
    [][last'.op = "addToArchive" =>
        LET pid == last'.pid
            img == last'.img
            at == {i \in 1..Len(projects) : projects[i].id = pid}
        IN /\ at = {} => projects' = projects
           /\ \A i \in at :
                (\A k \in 1..Len(projects[i].images) : projects[i].images[k].id # img.id)
                => /\ Len(projects') = Len(projects)
                   /\ \A j \in 1..Len(projects) : j # i => projects'[j] = projects[j]
                   /\ projects'[i].images =
                        <<[id |-> img.id, url |-> img.url, stage |-> last'.stage,
                           type |-> img.type]>> \o projects[i].images
                   /\ [projects'[i] EXCEPT !.images = <<>>]
                        = [projects[i] EXCEPT !.images = <<>>]]_vars

\* an image was put at the head of the image list of one of two projects
C20_Witness ==
    /\ last.op = "addToArchive"
    /\ Len(projects) = 2
    /\ \E i \in 1..2 : /\ projects[i].id = last.pid
                        /\ Len(projects[i].images) >= 2
                        /\ projects[i].images[1].id = last.img.id
                        /\ projects[i].images[1].stage = "REFINEMENT"

\* ===================================================================== C21
\* C21: performContextResearch never hands a failure to its caller: when the
\* gateway call throws, answers without text or answers text that cannot be
\* parsed, it resolves with the one fixed default ResearchData, so the
\* Research stage gets a research payload (and schedules its completion) in
\* every case.
C21_ResearchNeverFails ==
    last.op = "ResearchSettle" =>
        /\ last.research # REJECTED
        /\ last.failed => last.research = DEFAULT_RESEARCH
        /\ last.live => \E i \in 1..Len(calls) :
                            /\ calls[i].kind = "research" /\ calls[i].done
                            /\ calls[i].research = last.research

\* the gateway failed and the mounted Research stage holds the default payload
C21_Witness ==
    /\ last.op = "ResearchSettle" /\ last.failed /\ last.live
    /\ stage = "RESEARCH"
    /\ \E i \in 1..Len(calls) : calls[i].done /\ calls[i].research = DEFAULT_RESEARCH

\* ===================================================================== C22
\* C22: the project list only grows and stays most-recently-created first: no
\* step removes a project or changes the relative order of the projects it
\* holds, and a newly created project is put at the head.
C22_ListGrowsAtHead ==
    [][LET n == Len(projects)
           m == Len(projects')
       IN /\ m >= n
          /\ \A i \in 1..n : projects'[i + (m - n)].id = projects[i].id]_vars

\* a second project was created and sits in front of the first
C22_Witness ==
    /\ last.op = "handleBriefingComplete"
    /\ Len(projects) = 2
    /\ projects[1].id = 2 /\ projects[2].id = 1
    /\ currentProjectId = 2

\* ===================================================================== C23
\* C23: when a refinement request answers with a non-empty image while the
\* refinement stage is still active, all of this happens together: the
\* current image becomes the new image; exactly one version with the
\* instruction text is appended at the end of the ledger; exactly one model
\* turn with the new image is appended to the conversation log; exactly one
\* ITERATION image whose id is the new version's id is added to the archive
\* of the current project.
C23_SuccessfulRefinement ==
    [][(last'.op = "RefineSettle" /\ last'.live /\ last'.ok) =>
        LET n == Len(refinement.historyVersions)
            k == Len(refinement.chatHistory)
            v == refinement'.historyVersions[n + 1]
        IN /\ last'.image # ""
           /\ refinement'.currentImage = last'.image
           /\ Len(refinement'.historyVersions) = n + 1
           /\ SubSeq(refinement'.historyVersions, 1, n) = refinement.historyVersions
           /\ v.imageUrl = last'.image /\ v.prompt = last'.text
           /\ Len(refinement'.chatHistory) = k + 1
           /\ SubSeq(refinement'.chatHistory, 1, k) = refinement.chatHistory
           /\ refinement'.chatHistory[k + 1].role = "model"
           /\ refinement'.chatHistory[k + 1].imageUrl = last'.image
           /\ Len(projects') = Len(projects)
           /\ \A i \in 1..Len(projects) :
                 IF projects[i].id # currentProjectId THEN projects'[i] = projects[i]
                 ELSE /\ Len(projects'[i].images) = Len(projects[i].images) + 1
                      /\ Tail(projects'[i].images) = projects[i].images
                      /\ projects'[i].images[1].id = v.id
                      /\ projects'[i].images[1].type = "ITERATION"
                      /\ projects'[i].images[1].url = last'.image
           /\ \E i \in 1..Len(projects) : projects[i].id = currentProjectId]_vars

\* a second refinement of the session succeeded
C23_Witness ==
    /\ last.op = "RefineSettle" /\ last.live /\ last.ok
    /\ RefinementMounted
    /\ Len(refinement.historyVersions) = 3
    /\ refinement.currentImage = refinement.historyVersions[3].imageUrl
    /\ \E i \in 1..Len(projects) :
          /\ projects[i].id = currentProjectId
          /\ projects[i].images[1].id = refinement.historyVersions[3].id

\* ===================================================================== C24
\* C24: once ResearchStep has been torn down or its effect run has been
\* superseded (New Project, another project opened, the effect run again), no
\* completion of the earlier run calls onResearchComplete: the delayed
\* completion fires only for the effect run that is still in force.
C24_NoStaleResearchCompletion ==
    last.op = "ResearchTimer" => last.live

\* ===================================================================== C25
\* C25: whenever loadProject restores a project that has research and no
\* final image, the Proposal stage generates a fresh batch of options from
\* that project's brief and research, whatever stage the session was in
\* before: when the restored project is another one than the current one, the
\* option list starts empty and loading, a batch call made for the restored
\* project is in flight, and no option generated for the project that was
\* current before is shown or selectable.
C25_LoadedProposalStartsFresh ==
    [][(/\ last'.op = "loadProject" /\ stage' = "PROPOSAL"
        /\ currentProjectId' # currentProjectId) =>
        /\ proposal' = InitProposal
        /\ \E i \in 1..Len(calls') :
              /\ calls'[i].kind = "concepts" /\ calls'[i].live
              /\ calls'[i].pid = currentProjectId'
              /\ calls'[i].brief = briefData'
              /\ \A k \in 1..3 : calls'[i].res[k] = PENDING]_vars

\* ===================================================================== C26
\* C26: no option with an empty image ever is in the Proposal option list or
\* in the archive, for the initial batch and for every hybrid batch; so the
\* option selected on entering refinement, and version 0 of the ledger, have
\* a non-empty image.
C26_NoEmptyOption ==
    /\ \A j \in 1..Len(proposal.options) : proposal.options[j].imageUrl # ""
    /\ \A i \in 1..Len(projects) : \A a \in 1..Len(projects[i].images) :
          projects[i].images[a].type \in {"CONCEPT", "HYBRID"}
              => projects[i].images[a].url # ""
    /\ selectedOption # NULL => selectedOption.imageUrl # ""
    /\ RefinementMounted =>
          /\ refinement.historyVersions # <<>>
          /\ refinement.historyVersions[1].imageUrl # ""

\* a hybrid that survived a batch in which a sibling came back without an
\* image was selected and seeds the ledger
C26_Witness ==
    /\ last.op = "handleOptionSelected"
    /\ RefinementMounted
    /\ selectedOption.type = "HYBRID"
    /\ refinement.historyVersions[1].imageUrl = selectedOption.imageUrl
    /\ \E i \in 1..Len(projects) :
          /\ projects[i].id = currentProjectId
          /\ Len(projects[i].images) = 3

\* ===================================================================== C27
\* C27: in the Final stage the multi-angle batch is issued once for the
\* finalized image: the step in which the angle results are archived does not
\* itself start another multi-angle batch, so with no further user action
\* the number of ANGLE images of the project stops growing.
C27_AnglesArchivedWithoutNewBatch ==
    [][(last'.op = "BatchComplete" /\ last'.kind = "angles") =>
        /\ issued' = issued
        /\ \A i \in 1..Len(calls') : calls'[i].kind # "angles" \/ ~calls'[i].live]_vars

\* ===================================================================== C28
\* C28: after loadProject(P) of another project than the current one, no
\* session data produced for the other project remains: the selected option
\* is unset and the conversation log is empty, so the Final stage of P never
\* shows or exports turns of another project's refinement session.
C28_LoadProjectClearsSession ==
    [][(last'.op = "loadProject" /\ currentProjectId' # currentProjectId) =>
        selectedOption' = NULL /\ chatHistory' = <<>>]_vars

\* ===================================================================== C29
\* the turns of the log that answer an instruction: update or error turns
AnswerTurns(log) ==
    Cardinality({k \in 1..Len(log) :
        log[k].role = "model" /\ log[k].text \in {UPDATED_TEXT, ERROR_TEXT}})
UserTurns(log) == Cardinality({k \in 1..Len(log) : log[k].role = "user"})

\* C29: every accepted refinement instruction is answered once its gateway
\* call has settled (with an image, an empty result or an error): the step
\* that settles it resets isProcessing and appends exactly one model turn
\* (update or error); isProcessing is true only while the call of the last
\* instruction is in flight, and the log of the active stage holds one
\* answer turn for each settled instruction.
C29_InstructionAnswered ==
    /\ [](RefinementMounted =>
            /\ refinement.isProcessing <=>
                  \E i \in 1..Len(calls) : calls[i].kind = "refine" /\ calls[i].live
            /\ AnswerTurns(refinement.chatHistory) =
                  UserTurns(refinement.chatHistory)
                  - (IF refinement.isProcessing THEN 1 ELSE 0))
    /\ [][(last'.op = "RefineSettle" /\ last'.live) =>
            /\ refinement.isProcessing /\ ~refinement'.isProcessing
            /\ Len(refinement'.chatHistory) = Len(refinement.chatHistory) + 1
            /\ AnswerTurns(refinement'.chatHistory) =
                  AnswerTurns(refinement.chatHistory) + 1]_vars

\* one instruction was answered with an error, the next with an image
C29_Witness ==
    /\ last.op = "RefineSettle" /\ last.live /\ last.ok
    /\ RefinementMounted /\ ~refinement.isProcessing
    /\ UserTurns(refinement.chatHistory) = 2
    /\ AnswerTurns(refinement.chatHistory) = 2
    /\ \E k \in 1..Len(refinement.chatHistory) :
          refinement.chatHistory[k].text = ERROR_TEXT

\* ===================================================================== C30
\* C30: in every reachable state of a refinement session, under any
\* interleaving of submissions, gateway completions and restores (a restore
\* while a request is in flight included), the current image is the image of
\* some entry of the version ledger; so the image handed to finalize is the
\* image of a ledger version.
C30_CurrentImageInLedger ==
    /\ [](RefinementMounted =>
            \E k \in 1..Len(refinement.historyVersions) :
                refinement.historyVersions[k].imageUrl = refinement.currentImage)
    /\ [][last'.op = "Finalize" =>
            \E k \in 1..Len(refinement.historyVersions) :
                refinement.historyVersions[k].imageUrl = finalImage']_vars

\* a version that is not the last one was restored while a request is in flight
C30_Witness ==
    /\ last.op = "restoreVersion"
    /\ RefinementMounted /\ refinement.isProcessing
    /\ Len(refinement.historyVersions) >= 2
    /\ refinement.currentImage = refinement.historyVersions[1].imageUrl
    /\ refinement.currentImage #
          refinement.historyVersions[Len(refinement.historyVersions)].imageUrl
====
